---- MODULE Spec2Model ----
(***************************************************************************)
(* SIL code motion (lib/SILPasses/SILCodeMotion.cpp): the three sinkers    *)
(* (duplicate code from predecessors, block arguments, retains to          *)
(* successors) and the pass driver, over an explicit model of a SIL        *)
(* function: instructions with operands, ordered blocks, terminators.      *)
(***************************************************************************)
EXTENDS Integers, Sequences, FiniteSets, TLC

\* The scan budget of the backward scans.
SinkSearchWindow == 6

\* Bounds of the input functions the model sweeps over.
MaxTail == 2
MaxPad == 6
MaxArgs == 2
MaxBody == 3

(***************************************************************************)
(* Values: results of instructions, function-level values (arguments of    *)
(* the function, which dominate every block), block arguments, undef.      *)
(***************************************************************************)
InstV(i) == [k |-> "inst", n |-> i, b |-> 0]
Glob(n) == [k |-> "glob", n |-> n, b |-> 0]
ArgV(blk, i) == [k |-> "arg", n |-> i, b |-> blk]
Undef == [k |-> "undef", n |-> 0, b |-> 0]

\* The function-level values of the input functions: two class references
\* and one enum value.
PtrP == Glob(1)
PtrQ == Glob(2)
EnumE == Glob(3)

(***************************************************************************)
(* Instructions are records [op, ops, tag]: the opcode, the operands and   *)
(* the opcode's attribute (the literal, the enum case, the callee: 0 an    *)
(* unknown function, 1 a builtin known to be free of side effects).        *)
(***************************************************************************)
I(op, ops, tag) == [op |-> op, ops |-> ops, tag |-> tag]

Range(s) == {s[j] : j \in DOMAIN s}

RECURSIVE Flatten(_)
Flatten(ss) == IF ss = <<>> THEN <<>> ELSE Head(ss) \o Flatten(Tail(ss))

RECURSIVE SumLen(_, _)
SumLen(ss, n) == IF n = 0 THEN 0 ELSE Len(ss[n]) + SumLen(ss, n - 1)

RemoveId(s, x) == SelectSeq(s, LAMBDA y : y # x)

\* A terminator: its kind, its operands, its successor list. For a
\* switch_enum the first ncases successors are the case destinations, pay[c]
\* says whether case c has an argument type, and a successor after them is
\* the default destination; defpay says whether an enum element without a
\* case of its own has an argument type.
T(kind, ops, succs) ==
    [kind |-> kind, ops |-> ops, succs |-> succs, ncases |-> 0, pay |-> <<>>,
     defpay |-> FALSE]

SwitchEnum(v, succs, pay, defpay) ==
    [kind |-> "switch_enum", ops |-> <<v>>, succs |-> succs,
     ncases |-> Len(pay), pay |-> pay, defpay |-> defpay]

\* A function from its blocks' instruction lists (numbered in block order),
\* terminators and block-argument counts.
Build(bodies, terms, nargs) ==
    LET flat == Flatten(bodies)
    IN  [inst |-> [i \in 1..Len(flat) |-> flat[i]],
         body |-> [b \in DOMAIN bodies |->
                     [j \in 1..Len(bodies[b]) |-> SumLen(bodies, b - 1) + j]],
         term |-> terms,
         nargs |-> nargs,
         next |-> Len(flat) + 1]

VARIABLES
    F,           \* the function being transformed
    F0,          \* the function as the pass received it
    FEntry,      \* the function as the running sinker received it
    pc,          \* position in the driver and in the running sinker
    BB,          \* the block the driver is at
    SkipBudget,  \* sinkCodeFromPredecessors: the scan budget left
    InstToSink,  \* sinkCodeFromPredecessors: the scan cursor in FirstPred
    ArgNum,      \* sinkArgumentsFromPredecessors: the loop index i
    SI,          \* sinkRetainToSuccessors: the candidate cursor in BB
    Local,       \* the running sinker's own Changed
    Changed,     \* run(): the accumulated Changed
    NumSunk,     \* the statistic
    invalidated, \* invalidateAnalysis(Instructions) was called
    AA           \* the alias analysis: may two different values alias

vars == <<F, F0, FEntry, pc, BB, SkipBudget, InstToSink, ArgNum, SI, Local,
          Changed, NumSunk, invalidated, AA>>

(***************************************************************************)
(* The IR operations the pass uses.                                        *)
(***************************************************************************)
Blocks(f) == DOMAIN f.body

getParent(f, i) == CHOOSE b \in Blocks(f) : i \in Range(f.body[b])

getSuccs(f, b) == f.term[b].succs

\* The predecessor list: one entry per incoming edge, in block order.
RECURSIVE predsUpTo(_, _, _)
predsUpTo(f, b, n) ==
    IF n = 0 THEN <<>>
    ELSE predsUpTo(f, b, n - 1) \o
         [j \in 1..Len(SelectSeq(getSuccs(f, n), LAMBDA s : s = b)) |-> n]

getPreds(f, b) == predsUpTo(f, b, Cardinality(Blocks(f)))

\* 0 stands for the null block.
getSingleSuccessor(f, b) ==
    IF Len(getSuccs(f, b)) = 1 THEN getSuccs(f, b)[1] ELSE 0

getSinglePredecessor(f, b) ==
    IF Len(getPreds(f, b)) = 1 THEN getPreds(f, b)[1] ELSE 0

\* The operand slots that refer to value v: those of the instructions and of
\* the terminators.
usesOf(f, v) ==
    UNION {{<<"inst", i, j>> : j \in {j \in DOMAIN f.inst[i].ops :
                                        f.inst[i].ops[j] = v}} :
           i \in DOMAIN f.inst}
    \cup
    UNION {{<<"term", b, j>> : j \in {j \in DOMAIN f.term[b].ops :
                                        f.term[b].ops[j] = v}} :
           b \in Blocks(f)}

use_empty(f, i) == usesOf(f, InstV(i)) = {}

hasOneUse(f, i) == Cardinality(usesOf(f, InstV(i))) = 1

replaceOperands(ops, old, new) ==
    [j \in DOMAIN ops |-> IF ops[j] = old THEN new ELSE ops[j]]

replaceAllUsesWith(f, old, new) ==
    [f EXCEPT
        !.inst = [i \in DOMAIN f.inst |->
                    [f.inst[i] EXCEPT
                        !.ops = replaceOperands(f.inst[i].ops, old, new)]],
        !.term = [b \in Blocks(f) |->
                    [f.term[b] EXCEPT
                        !.ops = replaceOperands(f.term[b].ops, old, new)]]]

eraseFromParent(f, i) ==
    [f EXCEPT
        !.body = [b \in Blocks(f) |-> RemoveId(f.body[b], i)],
        !.inst = [j \in DOMAIN f.inst \ {i} |-> f.inst[j]]]

\* I->moveBefore(BB->begin())
moveBeforeBegin(f, i, b) ==
    [f EXCEPT
        !.body = [c \in Blocks(f) |->
                    IF c = b THEN <<i>> \o RemoveId(f.body[c], i)
                    ELSE RemoveId(f.body[c], i)]]

\* A builder at Succ->begin() creating the instructions recs, in order.
createAtBegin(f, b, recs) ==
    LET ids == [j \in DOMAIN recs |-> f.next + j - 1]
    IN  [f EXCEPT
            !.inst = [i \in DOMAIN f.inst \cup Range(ids) |->
                        IF i \in DOMAIN f.inst THEN f.inst[i]
                        ELSE recs[i - f.next + 1]],
            !.body[b] = ids \o f.body[b],
            !.next = f.next + Len(recs)]

\* SILInstruction::isIdenticalTo: the same opcode, operands and attributes.
isIdenticalTo(f, i, j) == f.inst[i] = f.inst[j]

mayHaveSideEffects(r) ==
    r.op \in {"store", "apply", "strong_retain", "strong_release",
              "retain_value", "release_value"}

(***************************************************************************)
(* Scan positions: position k of block b is its k-th instruction, and      *)
(* Len(body) + 1 is its terminator; position 1 is b->begin().              *)
(***************************************************************************)
termPos(f, b) == Len(f.body[b]) + 1

isTermAt(f, b, k) == k = termPos(f, b)

canSinkInstruction(f, b, k) ==
    /\ ~isTermAt(f, b, k)
    /\ use_empty(f, f.body[b][k])

isSinkBarrier(f, b, k) ==
    IF ~isTermAt(f, b, k) /\ f.inst[f.body[b][k]].op = "apply"
          /\ f.inst[f.body[b][k]].tag > 0
    THEN f.inst[f.body[b][k]].tag # 1
    ELSE IF isTermAt(f, b, k) THEN FALSE
    ELSE mayHaveSideEffects(f.inst[f.body[b][k]])

\* findIdenticalInBlock without the return at a barrier (lines 78-79).
RECURSIVE findIdenticalPastBarrier(_, _, _, _, _)
findIdenticalPastBarrier(f, P, Iden, k, budget) ==
    IF budget = 0 THEN 0
    ELSE IF canSinkInstruction(f, P, k) /\ isIdenticalTo(f, Iden, f.body[P][k])
    THEN f.body[P][k]
    ELSE IF k = 1 THEN 0
    ELSE findIdenticalPastBarrier(f, P, Iden, k - 1, budget - 1)

\* findIdenticalInBlock; 0 stands for nullptr.
RECURSIVE findIdenticalFrom(_, _, _, _, _)
findIdenticalFrom(f, P, Iden, k, budget) ==
    IF budget = 0 THEN 0
    ELSE IF canSinkInstruction(f, P, k) /\ isIdenticalTo(f, Iden, f.body[P][k])
    THEN f.body[P][k]
    ELSE IF isSinkBarrier(f, P, k) THEN 0
    ELSE IF k = 1 THEN 0
    ELSE findIdenticalFrom(f, P, Iden, k - 1, budget - 1)

findIdenticalInBlock(f, P, Iden) ==
    findIdenticalFrom(f, P, Iden, termPos(f, P), SinkSearchWindow)

FirstPredOf(f, b) == getPreds(f, b)[1]

\* The Dups vector after the loop over the predecessors: cleared at the first
\* predecessor without a duplicate.
RECURSIVE collectDups(_, _, _, _, _)
collectDups(f, first, ps, Iden, acc) ==
    IF ps = <<>> THEN acc
    ELSE IF Head(ps) = first THEN collectDups(f, first, Tail(ps), Iden, acc)
    ELSE LET DupInst == findIdenticalInBlock(f, Head(ps), Iden)
         IN  IF DupInst # 0
             THEN collectDups(f, first, Tail(ps), Iden, Append(acc, DupInst))
             ELSE <<>>

DupsOf(f, b, k) ==
    IF canSinkInstruction(f, FirstPredOf(f, b), k)
    THEN collectDups(f, FirstPredOf(f, b), getPreds(f, b),
                     f.body[FirstPredOf(f, b)][k], <<>>)
    ELSE <<>>

\* Lines 225-231 with the duplicates left in place.
RECURSIVE keepDups(_, _, _)
keepDups(f, dups, into) ==
    IF dups = <<>> THEN f
    ELSE keepDups(replaceAllUsesWith(f, InstV(Head(dups)), InstV(into)),
                  Tail(dups), into)

RECURSIVE eraseDups(_, _, _)
eraseDups(f, dups, into) ==
    IF dups = <<>> THEN f
    ELSE eraseDups(eraseFromParent(
                       replaceAllUsesWith(f, InstV(Head(dups)), InstV(into)),
                       Head(dups)),
                   Tail(dups), into)

\* Lines 225-231: move the candidate to the front of BB, erase the duplicates.
sinkOne(f, b, k) ==
    LET i == f.body[FirstPredOf(f, b)][k]
    IN  eraseDups(moveBeforeBegin(f, i, b), DupsOf(f, b, k), i)

(***************************************************************************)
(* The input functions. Blocks 2 and 3 branch to block 4; block 1 is the   *)
(* entry and ends in a two-way terminator to blocks 2 and 3.               *)
(***************************************************************************)
Return == T("return", <<>>, <<>>)

Br(b, args) == T("br", args, <<b>>)

CondBr(b1, b2) == T("cond_br", <<Glob(4)>>, <<b1, b2>>)

\* The instruction a name of an instruction list stands for, at position j
\* of a block whose first instruction has number base + 1. "ext" uses the
\* result of the instruction before it in the block.
Resolve(name, base, j) ==
    CASE name = "lit" -> I("integer_literal", <<>>, 1)
      [] name = "store" -> I("store", <<PtrP, PtrQ>>, 0)
      [] name = "apply" -> I("apply", <<PtrP>>, 0)
      [] name = "pure" -> I("apply", <<PtrP>>, 1)
      [] name = "ext" -> I("struct_extract",
                           <<IF j = 1 THEN PtrQ ELSE InstV(base + j - 1)>>, 0)
      [] name = "strong_retain" -> I("strong_retain", <<PtrP>>, 0)
      [] name = "strong_retain_q" -> I("strong_retain", <<PtrQ>>, 0)
      [] name = "strong_release" -> I("strong_release", <<PtrQ>>, 0)
      [] name = "retain_value" -> I("retain_value", <<EnumE>>, 0)
      [] name = "release_value" -> I("release_value", <<EnumE>>, 0)
      [] OTHER -> I("integer_literal", <<>>, base + j + 100)

ResolveAll(names, base) ==
    [j \in DOMAIN names |-> Resolve(names[j], base, j)]

RECURSIVE SeqsUpTo(_, _)
SeqsUpTo(S, n) ==
    IF n = 0 THEN {<<>>}
    ELSE SeqsUpTo(S, n - 1) \cup
         {Append(s, x) : s \in {t \in SeqsUpTo(S, n - 1) : Len(t) = n - 1},
                         x \in S}

Pad(n) == [j \in 1..n |-> "other"]

\* Four blocks: the entry, two blocks in the middle, the last block.
Diamond(e, eterm, r2, term2, r3, term3, r4, nargs4) ==
    Build(<<e, r2, r3, r4>>, <<eterm, term2, term3, Return>>,
          <<0, 0, 0, nargs4>>)

\* Blocks 2 and 3 with the given instruction names branch to block 4.
Joined(t2, t3, b4) ==
    Diamond(<<>>, CondBr(2, 3),
            ResolveAll(t2, 0), Br(4, <<>>),
            ResolveAll(t3, Len(t2)), Br(4, <<>>),
            ResolveAll(b4, Len(t2) + Len(t3)), 0)

TailNames == {"lit", "store", "apply", "ext"}

\* Duplicated tails in the two predecessors.
CodeInputs ==
    {Joined(t2, t3, <<"store">>) :
        t2 \in SeqsUpTo(TailNames, MaxTail),
        t3 \in SeqsUpTo(TailNames, MaxTail)}

\* A candidate deep in the first predecessor, a duplicate deep in the other.
EndNames == {<<>>, <<"lit">>, <<"store">>, <<"pure">>}

WindowInputs ==
    {Joined(a2 \o Pad(k2) \o z2, a3 \o Pad(k3) \o z3, <<>>) :
        a2 \in EndNames \ {<<>>}, z2 \in EndNames, k2 \in {0, MaxPad - 1, MaxPad},
        a3 \in EndNames \ {<<>>}, z3 \in EndNames, k3 \in {0, MaxPad - 1, MaxPad}}

\* The values a predecessor passes to block 4, and the instructions that
\* define them: a literal with this one use, another literal, a literal
\* with a second use, the result of a builtin call, a function-level value.
RECURSIVE ArgDefs(_, _)
ArgDefs(srcs, base) ==
    IF srcs = <<>> THEN [recs |-> <<>>, vals |-> <<>>]
    ELSE LET mine ==
                 CASE Head(srcs) = "lit" -> <<I("integer_literal", <<>>, 1)>>
                   [] Head(srcs) = "lit2" -> <<I("integer_literal", <<>>, 2)>>
                   [] Head(srcs) = "pure" -> <<I("apply", <<PtrP>>, 1)>>
                   [] Head(srcs) = "shared" ->
                        <<I("integer_literal", <<>>, 1),
                          I("struct_extract", <<InstV(base + 1)>>, 0)>>
                   [] OTHER -> <<>>
             rest == ArgDefs(Tail(srcs), base + Len(mine))
         IN  [recs |-> mine \o rest.recs,
              vals |-> <<IF mine = <<>> THEN PtrP ELSE InstV(base + 1)>>
                       \o rest.vals]

ArgUsers(n) == [j \in 1..n |-> I("struct_extract", <<ArgV(4, j - 1)>>, 0)]

WithArgs(s2, t2, s3, t3) ==
    LET d2 == ArgDefs(s2, 0)
        r2 == d2.recs \o ResolveAll(t2, Len(d2.recs))
        d3 == ArgDefs(s3, Len(r2))
        r3 == d3.recs \o ResolveAll(t3, Len(r2) + Len(d3.recs))
    IN  Diamond(<<>>, CondBr(2, 3), r2, Br(4, d2.vals), r3, Br(4, d3.vals),
                ArgUsers(Len(s2)), Len(s2))

\* What the first and another predecessor pass at one position.
ArgPairs ==
    {<<"lit", "lit">>, <<"lit", "lit2">>, <<"lit", "shared">>,
     <<"lit", "glob">>, <<"shared", "lit">>, <<"glob", "lit">>,
     <<"pure", "pure">>}

ArgInputs ==
    {WithArgs([j \in DOMAIN ps |-> ps[j][1]], t2,
              [j \in DOMAIN ps |-> ps[j][2]], t3) :
        ps \in SeqsUpTo(ArgPairs, MaxArgs) \ {<<>>},
        t2 \in {<<>>, <<"store">>}, t3 \in {<<>>, <<"store">>}}

\* Retains in the entry block, before its terminator.
CheckedCastBr(b1, b2) == T("checked_cast_br", <<PtrP>>, <<b1, b2>>)

RetainNames == {"strong_retain", "retain_value", "strong_release", "apply"}

EntryTerms ==
    {CondBr(2, 3), CheckedCastBr(2, 3)}
    \cup {SwitchEnum(EnumE, <<2, 3>>, <<p2, p3>>, FALSE) :
            p2 \in BOOLEAN, p3 \in BOOLEAN}
    \cup {SwitchEnum(EnumE, <<2, 3>>, <<p2>>, d) :
            p2 \in BOOLEAN, d \in BOOLEAN}

RetainInputs ==
    {Diamond(ResolveAll(e, 0), t, <<>>, Br(4, <<>>), <<>>, Br(4, <<>>),
             <<>>, 0) :
        e \in SeqsUpTo(RetainNames, MaxBody), t \in EntryTerms}

\* The shapes of the tails below: nothing, a literal, a store, both.
ShortTails == {<<>>, <<"lit">>, <<"store">>, <<"lit", "store">>}

\* Block 4 has two predecessors, of which block 1 has a second successor.
SharedPredInputs ==
    {Build(<<ResolveAll(t1, 0), ResolveAll(t2, Len(t1)), <<>>, <<>>>>,
           <<CondBr(2, 4), Br(4, <<>>), Return, Return>>, <<0, 0, 0, 0>>) :
        t1 \in ShortTails, t2 \in ShortTails}

\* Block 2 has one predecessor, block 1, whose only successor it is; block 1
\* may pass it the result of a literal.
SinglePredInputs ==
    {Build(<<ResolveAll(t1, 0), <<>>, <<>>, <<>>>>,
           <<Br(2, <<>>), CondBr(3, 4), Return, Return>>, <<0, 0, 0, 0>>) :
        t1 \in SeqsUpTo(TailNames, MaxTail)}
    \cup
    {Build(<<<<I("integer_literal", <<>>, 1)>> \o ResolveAll(t1, 1),
             <<I("struct_extract", <<ArgV(2, 0)>>, 0)>>, <<>>, <<>>>>,
           <<Br(2, <<InstV(1)>>), CondBr(3, 4), Return, Return>>,
           <<0, 1, 0, 0>>) :
        t1 \in ShortTails}

\* Block 5 has three predecessors, the destinations of a switch_enum.
ThreePredInputs ==
    {Build(<<<<>>, ResolveAll(t2, 0), ResolveAll(t3, Len(t2)),
             ResolveAll(t4, Len(t2) + Len(t3)), <<>>>>,
           <<SwitchEnum(EnumE, <<2, 3, 4>>, <<FALSE, FALSE, FALSE>>, FALSE),
             Br(5, <<>>), Br(5, <<>>), Br(5, <<>>), Return>>,
           <<0, 0, 0, 0, 0>>) :
        t2 \in ShortTails, t3 \in ShortTails, t4 \in ShortTails}

\* Both predecessors hold the same literal n times, n around the budget.
Copies(n) == [j \in 1..n |-> "lit"]

DeepInputs ==
    {Joined(Copies(n2), Copies(n3), <<>>) :
        n2 \in (SinkSearchWindow - 1)..(SinkSearchWindow + 1),
        n3 \in (SinkSearchWindow - 1)..(SinkSearchWindow + 1)}

\* A retain before a terminator with one successor, and before one with a
\* successor that has a second predecessor.
NarrowTerms ==
    {SwitchEnum(EnumE, <<2>>, <<p>>, FALSE) : p \in BOOLEAN}
    \cup {Br(2, <<>>), CondBr(2, 4),
          SwitchEnum(EnumE, <<2, 4>>, <<TRUE, TRUE>>, FALSE)}

NarrowInputs ==
    {Diamond(ResolveAll(e, 0), t, <<>>, Br(4, <<>>), <<>>, Br(4, <<>>),
             <<>>, 0) :
        e \in {<<"strong_retain">>, <<"retain_value">>,
               <<"retain_value", "strong_retain">>},
        t \in NarrowTerms}

\* Block 4 takes one argument; one of its predecessors ends in a
\* switch_enum on the result of a literal, the other in a branch that
\* passes the result of a literal.
SwitchPredInputs ==
    {Diamond(<<>>, CondBr(2, 3),
             <<I("integer_literal", <<>>, 1)>>,
             IF first THEN SwitchEnum(InstV(1), <<4>>, <<TRUE>>, FALSE)
             ELSE Br(4, <<InstV(1)>>),
             <<I("integer_literal", <<>>, n)>>,
             IF first THEN Br(4, <<InstV(2)>>)
             ELSE SwitchEnum(InstV(2), <<4>>, <<TRUE>>, FALSE),
             ArgUsers(1), 1) :
        first \in BOOLEAN, n \in {1, 2}}

ShapeInputs ==
    SharedPredInputs \cup SinglePredInputs \cup ThreePredInputs
    \cup DeepInputs \cup SwitchPredInputs

Inputs ==
    CodeInputs \cup WindowInputs \cup ArgInputs \cup RetainInputs
    \cup ShapeInputs \cup NarrowInputs

Init ==
    /\ \/ F \in RetainInputs \cup NarrowInputs /\ AA \in BOOLEAN
       \/ F \in CodeInputs \cup WindowInputs \cup ArgInputs \cup ShapeInputs
          /\ AA = FALSE
    /\ F0 = F
    /\ FEntry = F
    /\ pc = "code"
    /\ BB = 1
    /\ SkipBudget = 0
    /\ InstToSink = 0
    /\ ArgNum = 0
    /\ SI = 0
    /\ Local = FALSE
    /\ Changed = FALSE
    /\ NumSunk = 0
    /\ invalidated = FALSE

(***************************************************************************)
(* sinkCodeFromPredecessors(BB)                                            *)
(***************************************************************************)
\* Lines 179-190 without the loop over the predecessors (lines 183-185).
codePreconditionAnySuccessor(f, b) ==
    /\ getPreds(f, b) # <<>>
    /\ termPos(f, FirstPredOf(f, b)) # 1

\* Lines 179-190: the early returns.
codePrecondition(f, b) ==
    /\ getPreds(f, b) # <<>>
    /\ \A j \in DOMAIN getPreds(f, b) :
          getSingleSuccessor(f, getPreds(f, b)[j]) = b
    /\ termPos(f, FirstPredOf(f, b)) # 1

sinkCodeBail ==
    /\ pc = "code"
    /\ ~codePrecondition(F, BB)
    /\ pc' = "args"
    /\ FEntry' = F
    /\ UNCHANGED <<F, F0, BB, SkipBudget, InstToSink, ArgNum, SI, Local,
                   Changed, NumSunk, invalidated, AA>>

sinkCodeEnter ==
    /\ pc = "code"
    /\ codePrecondition(F, BB)
    /\ pc' = "codeLoop"
    /\ FEntry' = F
    /\ Local' = FALSE
    /\ SkipBudget' = SinkSearchWindow
    /\ InstToSink' = termPos(F, FirstPredOf(F, BB))
    /\ UNCHANGED <<F, F0, BB, ArgNum, SI, Changed, NumSunk, invalidated, AA>>

\* return Changed, with the driver going on to sinkRetainToSuccessors when
\* the result is true.
sinkCodeReturnSkipsArgs ==
    /\ pc' = IF Local THEN "retain" ELSE "args"
    /\ Changed' = (Changed \/ Local)
    /\ UNCHANGED <<F, F0, FEntry, BB, SkipBudget, InstToSink, ArgNum, SI,
                   Local, NumSunk, invalidated, AA>>

\* return Changed
sinkCodeReturn ==
    /\ pc' = "args"
    /\ Changed' = (Changed \/ Local)
    /\ UNCHANGED <<F, F0, FEntry, BB, SkipBudget, InstToSink, ArgNum, SI,
                   Local, NumSunk, invalidated, AA>>

\* Line 199: the budget is used up.
sinkCodeExhausted ==
    /\ pc = "codeLoop"
    /\ SkipBudget = 0
    /\ sinkCodeReturn

\* Lines 223-237 entered for a sinkable candidate when no predecessor lacked
\* a copy, instead of when Dups is not empty.
sinkCodeSinkWithoutDups ==
    /\ pc = "codeLoop"
    /\ SkipBudget # 0
    /\ canSinkInstruction(F, FirstPredOf(F, BB), InstToSink)
    /\ DupsOf(F, BB, InstToSink) # <<>> \/ Len(getPreds(F, BB)) = 1
    /\ F' = sinkOne(F, BB, InstToSink)
    /\ Local' = TRUE
    /\ NumSunk' = NumSunk + Len(DupsOf(F, BB, InstToSink))
    /\ InstToSink' = termPos(F', FirstPredOf(F, BB))
    /\ UNCHANGED <<F0, FEntry, pc, BB, SkipBudget, ArgNum, SI, Changed,
                   invalidated, AA>>

\* Lines 223-237 with the budget set anew when the scan restarts.
sinkCodeSinkResetsBudget ==
    /\ pc = "codeLoop"
    /\ SkipBudget # 0
    /\ DupsOf(F, BB, InstToSink) # <<>>
    /\ F' = sinkOne(F, BB, InstToSink)
    /\ Local' = TRUE
    /\ NumSunk' = NumSunk + Len(DupsOf(F, BB, InstToSink))
    /\ InstToSink' = termPos(F', FirstPredOf(F, BB))
    /\ SkipBudget' = SinkSearchWindow
    /\ UNCHANGED <<F0, FEntry, pc, BB, ArgNum, SI, Changed, invalidated, AA>>

\* Lines 223-237 without line 226.
sinkCodeSinkUnflagged ==
    /\ pc = "codeLoop"
    /\ SkipBudget # 0
    /\ DupsOf(F, BB, InstToSink) # <<>>
    /\ F' = sinkOne(F, BB, InstToSink)
    /\ NumSunk' = NumSunk + Len(DupsOf(F, BB, InstToSink))
    /\ InstToSink' = termPos(F', FirstPredOf(F, BB))
    /\ UNCHANGED <<F0, FEntry, pc, BB, SkipBudget, ArgNum, SI, Local, Changed,
                   invalidated, AA>>

\* Lines 223-237: duplicates in every other predecessor.
sinkCodeSink ==
    /\ pc = "codeLoop"
    /\ SkipBudget # 0
    /\ DupsOf(F, BB, InstToSink) # <<>>
    /\ F' = sinkOne(F, BB, InstToSink)
    /\ Local' = TRUE
    /\ NumSunk' = NumSunk + Len(DupsOf(F, BB, InstToSink))
    /\ InstToSink' = termPos(F', FirstPredOf(F, BB))
    /\ UNCHANGED <<F0, FEntry, pc, BB, SkipBudget, ArgNum, SI, Changed,
                   invalidated, AA>>

\* Lines 241-244 without the return: the scan walks on past the barrier.
sinkCodeBarrierWalksOn ==
    /\ pc = "codeLoop"
    /\ SkipBudget # 0
    /\ DupsOf(F, BB, InstToSink) = <<>>
    /\ isSinkBarrier(F, FirstPredOf(F, BB), InstToSink)
    /\ IF InstToSink = 1
       THEN sinkCodeReturn
       ELSE /\ SkipBudget' = SkipBudget - 1
            /\ InstToSink' = InstToSink - 1
            /\ UNCHANGED <<F, F0, FEntry, pc, BB, ArgNum, SI, Local,
                           Changed, NumSunk, invalidated, AA>>

\* Lines 241-244
sinkCodeBarrier ==
    /\ pc = "codeLoop"
    /\ SkipBudget # 0
    /\ DupsOf(F, BB, InstToSink) = <<>>
    /\ isSinkBarrier(F, FirstPredOf(F, BB), InstToSink)
    /\ sinkCodeReturn

\* Lines 247-250
sinkCodeFirst ==
    /\ pc = "codeLoop"
    /\ SkipBudget # 0
    /\ DupsOf(F, BB, InstToSink) = <<>>
    /\ ~isSinkBarrier(F, FirstPredOf(F, BB), InstToSink)
    /\ InstToSink = 1
    /\ sinkCodeReturn

\* Lines 252-253 with the budget kept when the candidate was sinkable.
sinkCodeSkipRefunds ==
    /\ pc = "codeLoop"
    /\ SkipBudget # 0
    /\ DupsOf(F, BB, InstToSink) = <<>>
    /\ ~isSinkBarrier(F, FirstPredOf(F, BB), InstToSink)
    /\ InstToSink # 1
    /\ SkipBudget' = IF canSinkInstruction(F, FirstPredOf(F, BB), InstToSink)
                     THEN SkipBudget ELSE SkipBudget - 1
    /\ InstToSink' = InstToSink - 1
    /\ UNCHANGED <<F, F0, FEntry, pc, BB, ArgNum, SI, Local, Changed,
                   NumSunk, invalidated, AA>>

\* Lines 252-253
sinkCodeSkip ==
    /\ pc = "codeLoop"
    /\ SkipBudget # 0
    /\ DupsOf(F, BB, InstToSink) = <<>>
    /\ ~isSinkBarrier(F, FirstPredOf(F, BB), InstToSink)
    /\ InstToSink # 1
    /\ SkipBudget' = SkipBudget - 1
    /\ InstToSink' = InstToSink - 1
    /\ UNCHANGED <<F, F0, FEntry, pc, BB, ArgNum, SI, Local, Changed,
                   NumSunk, invalidated, AA>>

(***************************************************************************)
(* sinkArgumentsFromPredecessors(BB) and sinkArgument(BB, ArgNum)          *)
(***************************************************************************)
\* Lines 161-167: the early returns.
argsPrecondition(f, b) ==
    /\ getPreds(f, b) # <<>>
    /\ getSinglePredecessor(f, b) = 0
    /\ \A j \in DOMAIN getPreds(f, b) :
          getSingleSuccessor(f, getPreds(f, b)[j]) = b

\* TermInst::getOperand(ArgNum)
getOperand(f, b, n) == f.term[b].ops[n + 1]

isInst(v) == v.k = "inst"

\* Lines 108-113: the first predecessor's value is the result of an
\* instruction with one use and no side effects.
firstArgMovable(f, b, n) ==
    LET FirstPredArg == getOperand(f, FirstPredOf(f, b), n)
    IN  /\ isInst(FirstPredArg)
        /\ hasOneUse(f, FirstPredArg.n)
        /\ ~mayHaveSideEffects(f.inst[FirstPredArg.n])

\* Lines 116-135: every other predecessor ends in a branch that passes an
\* identical instruction with one use.
otherArgIdentical(f, b, n, P) ==
    /\ f.term[P].kind \in {"br", "cond_br"}
    /\ isInst(getOperand(f, P, n))
    /\ hasOneUse(f, getOperand(f, P, n).n)
    /\ isIdenticalTo(f, getOperand(f, P, n).n,
                     getOperand(f, FirstPredOf(f, b), n).n)

canSinkArgument(f, b, n) ==
    /\ firstArgMovable(f, b, n)
    /\ \A j \in DOMAIN getPreds(f, b) :
          getPreds(f, b)[j] # FirstPredOf(f, b)
             => otherArgIdentical(f, b, n, getPreds(f, b)[j])

\* The Clones vector without its first entry.
ClonesOf(f, b, n) ==
    LET others == SelectSeq(getPreds(f, b), LAMBDA P : P # FirstPredOf(f, b))
    IN  [j \in DOMAIN others |-> getOperand(f, others[j], n).n]

isInstructionTriviallyDead(f, i) ==
    use_empty(f, i) /\ ~mayHaveSideEffects(f.inst[i])

\* recursivelyDeleteTriviallyDeadInstructions: erase i if it is dead, then the
\* instructions that defined its operands and are dead without it.
RECURSIVE deleteDeadList(_, _)
deleteDeadList(f, ids) ==
    IF ids = <<>> THEN f
    ELSE IF Head(ids) \notin DOMAIN f.inst
            \/ ~isInstructionTriviallyDead(f, Head(ids))
    THEN deleteDeadList(f, Tail(ids))
    ELSE LET ops == f.inst[Head(ids)].ops
             defs == SelectSeq(ops, isInst)
         IN  deleteDeadList(eraseFromParent(f, Head(ids)),
                            [j \in DOMAIN defs |-> defs[j].n] \o Tail(ids))

recursivelyDeleteTriviallyDeadInstructions(f, i) == deleteDeadList(f, <<i>>)

\* Lines 149-154 without line 151: the clones are deleted if they are dead.
RECURSIVE dropClonesKeepUses(_, _, _)
dropClonesKeepUses(f, clones, FSI) ==
    IF clones = <<>> THEN f
    ELSE IF Head(clones) = FSI THEN dropClonesKeepUses(f, Tail(clones), FSI)
    ELSE dropClonesKeepUses(
             recursivelyDeleteTriviallyDeadInstructions(f, Head(clones)),
             Tail(clones), FSI)

RECURSIVE dropClones(_, _, _)
dropClones(f, clones, FSI) ==
    IF clones = <<>> THEN f
    ELSE IF Head(clones) = FSI THEN dropClones(f, Tail(clones), FSI)
    ELSE dropClones(
             recursivelyDeleteTriviallyDeadInstructions(
                 replaceAllUsesWith(f, InstV(Head(clones)), Undef),
                 Head(clones)),
             Tail(clones), FSI)

\* Lines 140-154 with the block argument's uses left alone (line 145) and the
\* clones' uses kept (line 151).
sinkArgumentMoveOnly(f, b, n) ==
    LET FirstPredArg == getOperand(f, FirstPredOf(f, b), n)
        FSI == FirstPredArg.n
        f1 == replaceAllUsesWith(f, FirstPredArg, Undef)
    IN  moveBeforeBegin(f1, FSI, b)

\* Lines 140-154
sinkArgumentApply(f, b, n) ==
    LET FirstPredArg == getOperand(f, FirstPredOf(f, b), n)
        FSI == FirstPredArg.n
        f1 == replaceAllUsesWith(f, FirstPredArg, Undef)
        f2 == moveBeforeBegin(f1, FSI, b)
        f3 == replaceAllUsesWith(f2, ArgV(b, n), FirstPredArg)
    IN  dropClones(f3, ClonesOf(f, b, n), FSI)

sinkArgsBail ==
    /\ pc = "args"
    /\ ~argsPrecondition(F, BB)
    /\ pc' = "retain"
    /\ FEntry' = F
    /\ UNCHANGED <<F, F0, BB, SkipBudget, InstToSink, ArgNum, SI, Local,
                   Changed, NumSunk, invalidated, AA>>

sinkArgsEnter ==
    /\ pc = "args"
    /\ argsPrecondition(F, BB)
    /\ pc' = "argsLoop"
    /\ FEntry' = F
    /\ Local' = FALSE
    /\ ArgNum' = 0
    /\ UNCHANGED <<F, F0, BB, SkipBudget, InstToSink, SI, Changed, NumSunk,
                   invalidated, AA>>

\* sinkArgument returns false.
sinkArgumentFalse ==
    /\ pc = "argsLoop"
    /\ ArgNum < F.nargs[BB]
    /\ ~canSinkArgument(F, BB, ArgNum)
    /\ ArgNum' = ArgNum + 1
    /\ UNCHANGED <<F, F0, FEntry, pc, BB, SkipBudget, InstToSink, SI, Local,
                   Changed, NumSunk, invalidated, AA>>

\* sinkArgument returns true.
sinkArgumentTrue ==
    /\ pc = "argsLoop"
    /\ ArgNum < F.nargs[BB]
    /\ canSinkArgument(F, BB, ArgNum)
    /\ F' = sinkArgumentApply(F, BB, ArgNum)
    /\ Local' = TRUE
    /\ ArgNum' = ArgNum + 1
    /\ UNCHANGED <<F0, FEntry, pc, BB, SkipBudget, InstToSink, SI, Changed,
                   NumSunk, invalidated, AA>>

sinkArgsReturn ==
    /\ pc = "argsLoop"
    /\ ArgNum = F.nargs[BB]
    /\ pc' = "retain"
    /\ Changed' = (Changed \/ Local)
    /\ UNCHANGED <<F, F0, FEntry, BB, SkipBudget, InstToSink, ArgNum, SI,
                   Local, NumSunk, invalidated, AA>>

(***************************************************************************)
(* sinkRetainToSuccessors(BB, AA)                                          *)
(***************************************************************************)
\* The alias analysis' answer: may instruction i decrement the reference
\* count of Ptr.
canDecrementRefCount(f, i, Ptr, aa) ==
    CASE f.inst[i].op \in {"strong_release", "release_value"} ->
            f.inst[i].ops[1] = Ptr \/ aa
      [] f.inst[i].op = "apply" -> f.inst[i].tag # 1
      [] OTHER -> FALSE

\* Lines 367-380 without the loop over the successors (lines 369-373).
retainPreconditionAnyPredecessor(f, b) == termPos(f, b) # 1

\* Lines 367-380: the early returns.
retainPrecondition(f, b) ==
    /\ \A j \in DOMAIN getSuccs(f, b) :
          getSinglePredecessor(f, getSuccs(f, b)[j]) # 0
    /\ termPos(f, b) # 1

\* Lines 302-308 and 339-344 looking at the next instruction only.
noDecrementNext(f, b, k, Ptr, aa) ==
    k + 1 <= Len(f.body[b]) =>
        ~canDecrementRefCount(f, f.body[b][k + 1], Ptr, aa)

\* Lines 302-308 and 339-344: nothing after position k decrements Ptr.
noDecrementAfter(f, b, k, Ptr, aa) ==
    \A m \in (k + 1)..Len(f.body[b]) :
        ~canDecrementRefCount(f, f.body[b][m], Ptr, aa)

canSinkAcrossSwitch(f, b, k, aa) ==
    /\ f.term[b].kind = "switch_enum"
    /\ f.inst[f.body[b][k]].op = "retain_value"
    /\ f.inst[f.body[b][k]].ops[1] = f.term[b].ops[1]
    /\ noDecrementAfter(f, b, k, f.inst[f.body[b][k]].ops[1], aa)

canSinkAcrossBranch(f, b, k, aa) ==
    /\ f.term[b].kind \in {"checked_cast_br", "cond_br"}
    /\ f.inst[f.body[b][k]].op = "strong_retain"
    /\ noDecrementAfter(f, b, k, f.inst[f.body[b][k]].ops[1], aa)

\* createRefCountOpForPayload without the return at lines 263-264.
createRefCountOpForAnyCase(f, b, Ptr, c) ==
    createAtBegin(f, f.term[b].succs[c],
                  <<I("unchecked_enum_data", <<Ptr>>, c),
                    I("retain_value", <<InstV(f.next)>>, 0)>>)

\* createRefCountOpForPayload at the front of the destination of case c.
createRefCountOpForPayload(f, b, Ptr, c) ==
    IF ~f.term[b].pay[c] THEN f
    ELSE createAtBegin(f, f.term[b].succs[c],
                       <<I("unchecked_enum_data", <<Ptr>>, c),
                         I("retain_value", <<InstV(f.next)>>, 0)>>)

RECURSIVE sinkToCases(_, _, _, _)
sinkToCases(f, b, Ptr, c) ==
    IF c > f.term[b].ncases THEN f
    ELSE sinkToCases(createRefCountOpForPayload(f, b, Ptr, c), b, Ptr, c + 1)

\* Lines 310-322
sinkAcrossSwitch(f, b, k) ==
    eraseFromParent(sinkToCases(f, b, f.inst[f.body[b][k]].ops[1], 1),
                    f.body[b][k])

RECURSIVE sinkToSuccs(_, _, _)
sinkToSuccs(f, succs, Ptr) ==
    IF succs = <<>> THEN f
    ELSE sinkToSuccs(createAtBegin(f, Head(succs),
                                   <<I("strong_retain", <<Ptr>>, 0)>>),
                     Tail(succs), Ptr)

\* Lines 346-356
sinkAcrossBranch(f, b, k) ==
    eraseFromParent(sinkToSuccs(f, getSuccs(f, b),
                                f.inst[f.body[b][k]].ops[1]),
                    f.body[b][k])

\* The driver's step to the next block, or to the end of the sweep.
nextBlock ==
    /\ IF BB < Cardinality(Blocks(F))
       THEN BB' = BB + 1 /\ pc' = "code"
       ELSE BB' = BB /\ pc' = "finish"

sinkRetainBail ==
    /\ pc = "retain"
    /\ ~retainPrecondition(F, BB)
    /\ nextBlock
    /\ FEntry' = F
    /\ UNCHANGED <<F, F0, SkipBudget, InstToSink, ArgNum, SI, Local,
                   Changed, NumSunk, invalidated, AA>>

sinkRetainEnter ==
    /\ pc = "retain"
    /\ retainPrecondition(F, BB)
    /\ pc' = "retainLoop"
    /\ FEntry' = F
    /\ Local' = FALSE
    /\ SI' = Len(F.body[BB])
    /\ UNCHANGED <<F, F0, BB, SkipBudget, InstToSink, ArgNum, Changed,
                   NumSunk, invalidated, AA>>

\* tryToSinkRefCountAcrossSwitch returns true.
sinkRetainSwitch ==
    /\ pc = "retainLoop"
    /\ SI > 0
    /\ canSinkAcrossSwitch(F, BB, SI, AA)
    /\ F' = sinkAcrossSwitch(F, BB, SI)
    /\ NumSunk' = NumSunk + 1
    /\ Local' = TRUE
    /\ SI' = SI - 1
    /\ UNCHANGED <<F0, FEntry, pc, BB, SkipBudget, InstToSink, ArgNum,
                   Changed, invalidated, AA>>

\* tryToSinkRefCountInst returns true for a checked_cast_br or a cond_br.
sinkRetainBranch ==
    /\ pc = "retainLoop"
    /\ SI > 0
    /\ canSinkAcrossBranch(F, BB, SI, AA)
    /\ F' = sinkAcrossBranch(F, BB, SI)
    /\ NumSunk' = NumSunk + 1
    /\ Local' = TRUE
    /\ SI' = SI - 1
    /\ UNCHANGED <<F0, FEntry, pc, BB, SkipBudget, InstToSink, ArgNum,
                   Changed, invalidated, AA>>

\* tryToSinkRefCountInst returns false.
sinkRetainSkip ==
    /\ pc = "retainLoop"
    /\ SI > 0
    /\ ~canSinkAcrossSwitch(F, BB, SI, AA)
    /\ ~canSinkAcrossBranch(F, BB, SI, AA)
    /\ SI' = SI - 1
    /\ UNCHANGED <<F, F0, FEntry, pc, BB, SkipBudget, InstToSink, ArgNum,
                   Local, Changed, NumSunk, invalidated, AA>>

sinkRetainReturn ==
    /\ pc = "retainLoop"
    /\ SI = 0
    /\ nextBlock
    /\ Changed' = (Changed \/ Local)
    /\ UNCHANGED <<F, F0, FEntry, SkipBudget, InstToSink, ArgNum, SI, Local,
                   NumSunk, invalidated, AA>>

(***************************************************************************)
(* SILCodeMotion::run                                                      *)
(***************************************************************************)
\* Lines 413-414
runFinish ==
    /\ pc = "finish"
    /\ pc' = "done"
    /\ invalidated' = Changed
    /\ UNCHANGED <<F, F0, FEntry, BB, SkipBudget, InstToSink, ArgNum, SI,
                   Local, Changed, NumSunk, AA>>

Next ==
    \/ sinkCodeBail
    \/ sinkCodeEnter
    \/ sinkCodeExhausted
    \/ sinkCodeSink
    \/ sinkCodeBarrier
    \/ sinkCodeFirst
    \/ sinkCodeSkip
    \/ sinkArgsBail
    \/ sinkArgsEnter
    \/ sinkArgumentFalse
    \/ sinkArgumentTrue
    \/ sinkArgsReturn
    \/ sinkRetainBail
    \/ sinkRetainEnter
    \/ sinkRetainSwitch
    \/ sinkRetainBranch
    \/ sinkRetainSkip
    \/ sinkRetainReturn
    \/ runFinish

Spec == Init /\ [][Next]_vars

(***************************************************************************)
(* What the properties below speak of.                                     *)
(***************************************************************************)
\* The instructions executed from the start of block p to the end of block
\* b, in order, as records.
PathRecs(f, p, b) ==
    [j \in 1..(Len(f.body[p]) + Len(f.body[b])) |->
        f.inst[(f.body[p] \o f.body[b])[j]]]

\* An instruction with a side effect an observer can see.
SideEffecting(r) ==
    IF r.op = "apply" THEN r.tag # 1
    ELSE r.op \in {"store", "strong_retain", "strong_release",
                   "retain_value", "release_value"}

Effects(f, p, b) == SelectSeq(PathRecs(f, p, b), SideEffecting)

\* What instruction r increments when control leaves block b by its j-th
\* successor: <<v, 0>> is the value v itself, <<v, c>> the payload of enum v
\* in case c (c = -1: the payload of an element the default destination
\* stands for), <<Undef, 0>> nothing. A retain_value of the enum the block
\* switches on retains the payload of the case taken.
IncrementOf(f, b, j, r) ==
    CASE r.op = "strong_retain" -> <<r.ops[1], 0>>
      [] r.op = "retain_value" ->
           IF f.term[b].kind = "switch_enum" /\ r.ops[1] = f.term[b].ops[1]
           THEN IF j <= f.term[b].ncases
                THEN IF f.term[b].pay[j] THEN <<r.ops[1], j>>
                     ELSE <<Undef, 0>>
                ELSE IF f.term[b].defpay THEN <<r.ops[1], -1>>
                     ELSE <<Undef, 0>>
           ELSE IF r.ops[1].k = "inst"
                   /\ r.ops[1].n \in DOMAIN f.inst
                   /\ f.inst[r.ops[1].n].op = "unchecked_enum_data"
           THEN <<f.inst[r.ops[1].n].ops[1], f.inst[r.ops[1].n].tag>>
           ELSE <<r.ops[1], 0>>
      [] OTHER -> <<Undef, 0>>

\* The increments along the path from the start of b into its j-th
\* successor, in order.
Increments(f, b, j) ==
    LET recs == PathRecs(f, b, getSuccs(f, b)[j])
    IN  SelectSeq([m \in DOMAIN recs |-> IncrementOf(f, b, j, recs[m])],
                  LAMBDA t : t # <<Undef, 0>>)

CountOf(s, t) == Cardinality({m \in DOMAIN s : s[m] = t})

SameCounts(s1, s2) ==
    \A t \in Range(s1) \cup Range(s2) : CountOf(s1, t) = CountOf(s2, t)

\* C1: a step of the reference-count sinker on block BB leaves, for every
\* successor of BB and every pointer, the number of increments of that
\* pointer on the path from the start of BB into that successor unchanged.
C1_NetCountPreserved ==
    [][pc = "retainLoop" =>
          \A j \in DOMAIN getSuccs(F, BB) :
              SameCounts(Increments(F, BB, j), Increments(F', BB, j))]_vars

\* C2: while sinkCodeFromPredecessors(BB) runs and when it has returned, the
\* side-effecting instructions along each path from a predecessor into BB
\* are, in order and by structural identity, those of the function it was
\* called on.
C2_SideEffectsPreserved ==
    (pc \in {"codeLoop", "args"} /\ codePrecondition(FEntry, BB)) =>
        \A j \in DOMAIN getPreds(FEntry, BB) :
            Effects(F, getPreds(FEntry, BB)[j], BB)
                = Effects(FEntry, getPreds(FEntry, BB)[j], BB)

\* A side-effecting instruction was sunk: BB now starts with one that its
\* predecessors held.
C2_Witness ==
    /\ pc = "args"
    /\ codePrecondition(FEntry, BB)
    /\ F.body[BB] # <<>>
    /\ F.body[BB][1] \notin Range(FEntry.body[BB])
    /\ SideEffecting(F.inst[F.body[BB][1]])
    /\ Len(F.body[BB]) >= 3

\* An instruction of block b at position k left the block in this step.
LeftBlock(b, k) == F.body[b][k] \notin Range(F'.body[b])

BarrierAfter(f, b, k) ==
    \E m \in (k + 1)..Len(f.body[b]) : SideEffecting(f.inst[f.body[b][m]])

\* C3 as stated: in no step of the sweep does an instruction leave a block
\* (moved into a successor, or erased for a copy in a successor) while a
\* side-effecting instruction follows it in that block.
C3_NothingSunkAcrossBarrier ==
    [][\A b \in Blocks(F) : \A k \in DOMAIN F.body[b] :
          LeftBlock(b, k) => ~BarrierAfter(F, b, k)]_vars

\* C3 amended: in no step of sinkCodeFromPredecessors does an instruction
\* leave a predecessor while a side-effecting instruction follows it there.
C3_CodeSinkerRespectsBarriers ==
    [][pc = "codeLoop" =>
          \A b \in Blocks(F) : \A k \in DOMAIN F.body[b] :
              LeftBlock(b, k) => ~BarrierAfter(F, b, k)]_vars

\* sinkCodeFromPredecessors has returned after sinking from a predecessor
\* that still holds a side-effecting instruction.
C3_Witness ==
    /\ pc = "args"
    /\ Local
    /\ codePrecondition(FEntry, BB)
    /\ \E j \in DOMAIN getPreds(F, BB) :
          LET P == getPreds(F, BB)[j]
          IN  /\ F.body[P] # FEntry.body[P]
              /\ \E k \in DOMAIN F.body[P] : SideEffecting(F.inst[F.body[P][k]])

\* C4 as stated: when sinkArgument(BB, ArgNum) returns true, BB has one
\* block argument less and every predecessor's terminator one operand less.
C4_ArgumentRemoved ==
    [][sinkArgumentTrue =>
          /\ F'.nargs[BB] = F.nargs[BB] - 1
          /\ \A j \in DOMAIN getPreds(F, BB) :
                Len(F'.term[getPreds(F, BB)[j]].ops)
                    = Len(F.term[getPreds(F, BB)[j]].ops) - 1]_vars

\* C4 amended: when sinkArgument(BB, ArgNum) returns true, the block
\* argument is still a parameter of BB but has no use, and every
\* predecessor's terminator still has its operand ArgNum, which is undef.
C4_ArgumentDeadInputsUndef ==
    [][sinkArgumentTrue =>
          /\ F'.nargs = F.nargs
          /\ usesOf(F', ArgV(BB, ArgNum)) = {}
          /\ \A j \in DOMAIN getPreds(F, BB) :
                LET P == getPreds(F, BB)[j]
                IN  /\ Len(F'.term[P].ops) = Len(F.term[P].ops)
                    /\ F'.term[P].ops[ArgNum + 1] = Undef]_vars

\* sinkArgument has returned true for an argument that had a use.
C4_Witness ==
    /\ pc = "argsLoop"
    /\ Local
    /\ ArgNum > 0
    /\ usesOf(FEntry, ArgV(BB, ArgNum - 1)) # {}
    /\ usesOf(F, ArgV(BB, ArgNum - 1)) = {}
    /\ \A j \in DOMAIN getPreds(F, BB) :
          F.term[getPreds(F, BB)[j]].ops[ArgNum] = Undef

\* C5: when sinkArgument(BB, ArgNum) returns true, every use of the block
\* argument has become a use of the instruction the first predecessor
\* passed, that instruction is the first of BB, the block argument has no
\* use, and the instruction every other predecessor passed is erased.
C5_ArgumentReplacedByFirstCopy ==
    [][sinkArgumentTrue =>
          LET FSI == F.term[FirstPredOf(F, BB)].ops[ArgNum + 1].n
          IN  /\ usesOf(F, ArgV(BB, ArgNum)) \subseteq usesOf(F', InstV(FSI))
              /\ usesOf(F, ArgV(BB, ArgNum)) # {}
                    => usesOf(F', InstV(FSI)) = usesOf(F, ArgV(BB, ArgNum))
              /\ F'.body[BB][1] = FSI
              /\ \A b \in Blocks(F) \ {BB} : FSI \notin Range(F'.body[b])
              /\ usesOf(F', ArgV(BB, ArgNum)) = {}
              /\ \A j \in DOMAIN getPreds(F, BB) :
                    LET P == getPreds(F, BB)[j]
                        SIv == F.term[P].ops[ArgNum + 1]
                    IN  P # FirstPredOf(F, BB) =>
                          /\ SIv.n # FSI
                          /\ F.inst[SIv.n] = F.inst[FSI]
                          /\ SIv.n \notin DOMAIN F'.inst
                          /\ \A b \in Blocks(F) :
                                SIv.n \notin Range(F'.body[b])]_vars

\* sinkArgument has returned true: BB starts with the instruction the first
\* predecessor used to hold, and it is used where the argument was.
C5_Witness ==
    /\ pc = "argsLoop"
    /\ Local
    /\ ArgNum > 0
    /\ F.body[BB] # <<>>
    /\ F.body[BB][1] \in Range(FEntry.body[FirstPredOf(F, BB)])
    /\ usesOf(F, InstV(F.body[BB][1])) = usesOf(FEntry, ArgV(BB, ArgNum - 1))
    /\ usesOf(F, InstV(F.body[BB][1])) # {}
    /\ Cardinality(DOMAIN F.inst) < Cardinality(DOMAIN FEntry.inst)

IsIncrement(r) == r.op \in {"strong_retain", "retain_value"}

\* Some instruction after position k of block b may decrement Ptr.
DecrementAfter(f, b, k, Ptr, aa) ==
    \E m \in (k + 1)..Len(f.body[b]) :
        canDecrementRefCount(f, f.body[b][m], Ptr, aa)

\* The candidate at position SI of BB is an increment of the enum BB
\* switches on, and nothing after it may decrement that enum.
SwitchCandidate ==
    /\ pc = "retainLoop"
    /\ SI > 0
    /\ F.term[BB].kind = "switch_enum"
    /\ IsIncrement(F.inst[F.body[BB][SI]])
    /\ F.inst[F.body[BB][SI]].ops[1] = F.term[BB].ops[1]
    /\ ~DecrementAfter(F, BB, SI, F.term[BB].ops[1], AA)

\* C6: for such a candidate the step removes it from BB, puts a projection
\* of the payload and a retain of the projection at the front of every case
\* destination whose case has a payload, and leaves every case destination
\* whose case has none as it was.
C6_DispatchSpecialised ==
    [][SwitchCandidate =>
          /\ F.body[BB][SI] \notin Range(F'.body[BB])
          /\ F.body[BB][SI] \notin DOMAIN F'.inst
          /\ \A c \in 1..F.term[BB].ncases :
                LET S == F.term[BB].succs[c]
                IN  IF F.term[BB].pay[c]
                    THEN /\ Len(F'.body[S]) = Len(F.body[S]) + 2
                         /\ SubSeq(F'.body[S], 3, Len(F'.body[S])) = F.body[S]
                         /\ F'.inst[F'.body[S][1]]
                               = I("unchecked_enum_data",
                                   <<F.term[BB].ops[1]>>, c)
                         /\ F'.inst[F'.body[S][2]]
                               = I("retain_value",
                                   <<InstV(F'.body[S][1])>>, 0)
                    ELSE F'.body[S] = F.body[S]]_vars

\* A retain_value was sunk across a switch_enum with a case that has a
\* payload and a case that has none.
C6_Witness ==
    /\ pc = "retainLoop"
    /\ Local
    /\ F.term[BB].kind = "switch_enum"
    /\ F.term[BB].ncases = 2
    /\ F.term[BB].pay[1]
    /\ ~F.term[BB].pay[2]
    /\ Len(F.body[F.term[BB].succs[1]]) = 2
    /\ F.inst[F.body[F.term[BB].succs[1]][1]].op = "unchecked_enum_data"
    /\ F.body[F.term[BB].succs[2]] = <<>>
    /\ Len(F.body[BB]) < Len(FEntry.body[BB])

\* Every increment of block b has, after it in b, an instruction that may
\* decrement its pointer.
AllBlocked(f, b, aa) ==
    \A k \in DOMAIN f.body[b] :
        IsIncrement(f.inst[f.body[b][k]]) =>
            DecrementAfter(f, b, k, f.inst[f.body[b][k]].ops[1], aa)

\* C7: a candidate increment with a possible decrement of its pointer after
\* it is left alone, the function with it; and when every increment of BB
\* is in that case, sinkRetainToSuccessors changes nothing and returns false.
C7_DecrementBlocksSink ==
    [][/\ (/\ pc = "retainLoop"
           /\ SI > 0
           /\ IsIncrement(F.inst[F.body[BB][SI]])
           /\ DecrementAfter(F, BB, SI, F.inst[F.body[BB][SI]].ops[1], AA))
          => F' = F
       /\ (pc = "retainLoop" /\ AllBlocked(FEntry, BB, AA))
          => (F' = F /\ F = FEntry /\ ~Local /\ ~Local')]_vars

\* A strong_retain before a two-way branch was passed over because an
\* instruction that is not next to it may decrement its pointer.
C7_Witness ==
    /\ pc = "retainLoop"
    /\ F.term[BB].kind \in {"cond_br", "checked_cast_br"}
    /\ SI + 2 <= Len(F.body[BB])
    /\ F.inst[F.body[BB][SI + 1]].op = "strong_retain"
    /\ ~canDecrementRefCount(F, F.body[BB][SI + 2], PtrP, AA)
    /\ DecrementAfter(F, BB, SI + 2, PtrP, AA)
    /\ F = FEntry

\* Position k of block P is one the scan of findIdenticalInBlock reaches:
\* among the last SinkSearchWindow - 1 instructions, no barrier after it.
InScannedTail(f, P, k) ==
    /\ k \in DOMAIN f.body[P]
    /\ Len(f.body[P]) - k < SinkSearchWindow - 1
    /\ ~BarrierAfter(f, P, k)

\* The sinkable instructions of P's scanned tail identical to instruction i.
CopiesIn(f, P, i) ==
    {f.body[P][k] : k \in {k \in DOMAIN f.body[P] :
        /\ InScannedTail(f, P, k)
        /\ usesOf(f, InstV(f.body[P][k])) = {}
        /\ f.inst[f.body[P][k]] = f.inst[i]}}

OtherPreds(f, b) == Range(getPreds(f, b)) \ {FirstPredOf(f, b)}

\* The scan of BB's first predecessor is at a sinkable instruction that has
\* a copy in the scanned tail of every other predecessor.
DuplicatedCandidate ==
    /\ pc = "codeLoop"
    /\ SkipBudget # 0
    /\ InstToSink \in DOMAIN F.body[FirstPredOf(F, BB)]
    /\ usesOf(F, InstV(F.body[FirstPredOf(F, BB)][InstToSink])) = {}
    /\ OtherPreds(F, BB) # {}
    /\ \A P \in OtherPreds(F, BB) :
          CopiesIn(F, P, F.body[FirstPredOf(F, BB)][InstToSink]) # {}

\* C8: the step at such a candidate moves it to the front of BB, out of the
\* first predecessor, and erases exactly one copy from the scanned tail of
\* every other predecessor (so of the instructions matched one is left);
\* what used an erased copy uses the moved instruction.
C8_OneCopyAtFrontOfBlock ==
    [][DuplicatedCandidate =>
          LET i == F.body[FirstPredOf(F, BB)][InstToSink]
              gone == DOMAIN F.inst \ DOMAIN F'.inst
          IN  /\ F'.body[BB] = <<i>> \o F.body[BB]
              /\ F'.body[FirstPredOf(F, BB)]
                    = RemoveId(F.body[FirstPredOf(F, BB)], i)
              /\ F'.inst[i] = F.inst[i]
              /\ Cardinality(gone) = Cardinality(OtherPreds(F, BB))
              /\ \A P \in OtherPreds(F, BB) :
                    \E d \in CopiesIn(F, P, i) :
                        /\ d \in gone
                        /\ F'.body[P] = RemoveId(F.body[P], d)
                        /\ usesOf(F, InstV(d)) \subseteq usesOf(F', InstV(i))
              /\ DOMAIN F'.inst \subseteq DOMAIN F.inst]_vars

\* A duplicate was sunk: BB starts with an instruction its first
\* predecessor held, and the function has one instruction less.
C8_Witness ==
    /\ pc = "codeLoop"
    /\ Local
    /\ F.body[BB] # <<>>
    /\ F.body[BB][1] \in Range(FEntry.body[FirstPredOf(F, BB)])
    /\ F.body[BB][1] \notin Range(F.body[FirstPredOf(F, BB)])
    /\ Cardinality(DOMAIN F.inst) = Cardinality(DOMAIN FEntry.inst) - 1

\* Predecessor P ends in a branch that passes, for block argument n, the
\* result of an instruction with one use.
PassesSingleUseInst(f, P, n) ==
    /\ f.term[P].kind \in {"br", "cond_br"}
    /\ f.term[P].ops[n + 1].k = "inst"
    /\ Cardinality(usesOf(f, f.term[P].ops[n + 1])) = 1

\* C9: a step of sinkArgument(BB, ArgNum) changes the function only if the
\* first predecessor passes at ArgNum an instruction with one use and no
\* side effects and every other predecessor an identical instruction with
\* one use; and it never changes what is passed at another position, the
\* other block arguments, or their uses.
C9_OnlyEligibleIndexChanges ==
    [][(pc = "argsLoop" /\ ArgNum < F.nargs[BB]) =>
          /\ F' # F =>
                LET P1 == FirstPredOf(F, BB)
                IN  /\ PassesSingleUseInst(F, P1, ArgNum)
                    /\ ~SideEffecting(F.inst[F.term[P1].ops[ArgNum + 1].n])
                    /\ \A P \in OtherPreds(F, BB) :
                          /\ PassesSingleUseInst(F, P, ArgNum)
                          /\ F.inst[F.term[P].ops[ArgNum + 1].n]
                                = F.inst[F.term[P1].ops[ArgNum + 1].n]
          /\ F'.nargs = F.nargs
          /\ \A n \in 0..(F.nargs[BB] - 1) :
                n # ArgNum =>
                  /\ usesOf(F', ArgV(BB, n)) = usesOf(F, ArgV(BB, n))
                  /\ \A j \in DOMAIN getPreds(F, BB) :
                        F'.term[getPreds(F, BB)[j]].ops[n + 1]
                            = F.term[getPreds(F, BB)[j]].ops[n + 1]]_vars

\* C10: the pass ends with Changed true exactly if the function differs
\* from its input, invalidateAnalysis is called exactly if Changed is true
\* and not before the end, and a sinker's own Changed is true exactly if
\* the function differs from the one the sinker was called on.
C10_ChangedIsExact ==
    /\ pc = "done" => ((Changed <=> F # F0) /\ (invalidated <=> Changed))
    /\ pc # "done" => ~invalidated
    /\ pc \in {"codeLoop", "argsLoop", "retainLoop"} =>
          (Local <=> F # FEntry)
    /\ ~Changed /\ pc \notin {"codeLoop", "argsLoop", "retainLoop"} =>
          F = F0

\* The pass has ended without a change on a function with instructions in
\* the predecessors of a block, or with a change.
C10_Witness ==
    /\ pc = "done"
    /\ \/ /\ ~Changed
          /\ ~invalidated
          /\ F.body[2] # <<>>
          /\ F.body[3] # <<>>
       \/ /\ Changed
          /\ invalidated
          /\ F.body[4] # F0.body[4]

\* Every predecessor of block b has b as its one successor.
SoleSuccessorOfPreds(f, b) ==
    \A P \in Range(getPreds(f, b)) : getSuccs(f, P) = <<b>>

\* C11: while the duplicate-code sinker or the block-argument sinker is at a
\* block with a predecessor that has another successor, and while the
\* block-argument sinker is at a block with fewer than two predecessors, no
\* step changes the function or the pass's Changed.
C11_PredecessorSidePrecondition ==
    [][(\/ /\ pc \in {"code", "codeLoop", "args", "argsLoop"}
           /\ ~SoleSuccessorOfPreds(F, BB)
        \/ /\ pc \in {"args", "argsLoop"}
           /\ Len(getPreds(F, BB)) < 2)
       => (F' = F /\ Changed' = Changed
           /\ pc' \notin {"codeLoop", "argsLoop"})]_vars

\* Both sinkers have passed a block whose two predecessors end in the same
\* sinkable instruction, one of them with a second successor; and the
\* block-argument sinker has passed a block with one predecessor that
\* passes it a single-use literal.
C11_Witness ==
    /\ pc = "retain"
    /\ F = F0
    /\ ~Changed
    /\ \/ /\ Len(getPreds(F, BB)) = 2
          /\ ~SoleSuccessorOfPreds(F, BB)
          /\ \A P \in Range(getPreds(F, BB)) :
                /\ F.body[P] # <<>>
                /\ F.inst[F.body[P][Len(F.body[P])]]
                      = I("integer_literal", <<>>, 1)
       \/ /\ Len(getPreds(F, BB)) = 1
          /\ SoleSuccessorOfPreds(F, BB)
          /\ F.nargs[BB] = 1
          /\ PassesSingleUseInst(F, getPreds(F, BB)[1], 0)

\* Every successor of block b has b as its one predecessor.
SolePredecessorOfSuccs(f, b) ==
    \A S \in Range(getSuccs(f, b)) : getPreds(f, S) = <<b>>

\* C12 as stated: a step of the reference-count sinker changes the function
\* only at a block with more than one successor, each with that block as
\* its one predecessor.
C12_OnlyWithMultipleSuccessors ==
    [][(pc \in {"retain", "retainLoop"} /\ F' # F)
       => (Len(getSuccs(F, BB)) > 1 /\ SolePredecessorOfSuccs(F, BB))]_vars

\* C12 amended: a step of the reference-count sinker changes the function
\* only at a block that ends in a switch_enum, cond_br or checked_cast_br
\* and whose successors, one or more, each have that block as their one
\* predecessor; at a block with a successor that has another predecessor
\* no step changes the function or Changed, and no candidate is examined.
C12_OnlyIntoOwnedSuccessors ==
    [][/\ (pc \in {"retain", "retainLoop"} /\ F' # F)
          => /\ F.term[BB].kind
                   \in {"switch_enum", "cond_br", "checked_cast_br"}
             /\ Len(getSuccs(F, BB)) >= 1
             /\ SolePredecessorOfSuccs(F, BB)
       /\ (pc \in {"retain", "retainLoop"} /\ ~SolePredecessorOfSuccs(F, BB))
          => (F' = F /\ Changed' = Changed /\ pc' # "retainLoop")]_vars

\* A retain_value was sunk across a switch_enum with one destination.
C12_Witness ==
    /\ pc = "retainLoop"
    /\ Local
    /\ Len(getSuccs(F, BB)) = 1
    /\ F.term[BB].pay = <<TRUE>>
    /\ Len(F.body[BB]) < Len(FEntry.body[BB])
    /\ Len(F.body[getSuccs(F, BB)[1]])
          = Len(FEntry.body[getSuccs(F, BB)[1]]) + 2

\* Which of the three sinkers the driver is in: 1 the duplicate-code
\* sinker, 2 the block-argument sinker, 3 the reference-count sinker, 4
\* past the loop over the blocks.
Phase(p) ==
    CASE p \in {"code", "codeLoop"} -> 1
      [] p \in {"args", "argsLoop"} -> 2
      [] p \in {"retain", "retainLoop"} -> 3
      [] OTHER -> 4

\* C13: the sweep starts at the first block with the duplicate-code sinker;
\* at a block the sinkers follow each other in the order 1, 2, 3, none left
\* out whatever the one before returned; the driver goes from a block only
\* to the next one, only after the reference-count sinker, and leaves the
\* loop only after the last block.
C13_OneLinearSweep ==
    /\ (BB = 1 /\ pc = "code")
    /\ [][/\ BB' \in {BB, BB + 1}
          /\ Phase(pc) = 1 => (BB' = BB /\ Phase(pc') \in {1, 2})
          /\ Phase(pc) = 2 => (BB' = BB /\ Phase(pc') \in {2, 3})
          /\ Phase(pc) = 3 =>
                \/ BB' = BB /\ pc' = "retainLoop"
                \/ BB' = BB + 1 /\ pc' = "code" /\ BB < Cardinality(Blocks(F))
                \/ BB' = BB /\ pc' = "finish" /\ BB = Cardinality(Blocks(F))
          /\ Phase(pc) = 4 => (BB' = BB /\ Phase(pc') = 4)
          /\ pc' = "code" => BB' = BB + 1
          /\ pc' \in {"args", "retain"} => pc' # pc]_vars

\* The reference-count sinker runs on the last block after an earlier
\* sinker changed that block and returned true.
C13_Witness ==
    /\ pc = "retainLoop"
    /\ BB = Cardinality(Blocks(F))
    /\ Changed
    /\ F.body[BB] # F0.body[BB]

\* Some predecessor of block b ends in a terminator that is neither a br
\* nor a cond_br.
NonBranchPred(f, b) ==
    \E P \in Range(getPreds(f, b)) : f.term[P].kind \notin {"br", "cond_br"}

\* C14: sinkArgument(BB, ArgNum) returns false and changes nothing when a
\* predecessor of BB, the first one included, ends in a terminator that is
\* neither a br nor a cond_br.
C14_NonBranchPredecessorAborts ==
    [][(pc = "argsLoop" /\ ArgNum < F.nargs[BB] /\ NonBranchPred(F, BB))
       => (F' = F /\ Local' = Local)]_vars

\* The scan of BB's first predecessor is at a sinkable instruction for which
\* some other predecessor has no copy in its scanned tail.
AbandonedCandidate ==
    /\ pc = "codeLoop"
    /\ SkipBudget # 0
    /\ InstToSink \in DOMAIN F.body[FirstPredOf(F, BB)]
    /\ usesOf(F, InstV(F.body[FirstPredOf(F, BB)][InstToSink])) = {}
    /\ \E P \in OtherPreds(F, BB) :
          CopiesIn(F, P, F.body[FirstPredOf(F, BB)][InstToSink]) = {}

\* C15 as stated: when the scan goes on from such a candidate to the next
\* one, the budget is what it was.
C15_AbandonedCandidateKeepsBudget ==
    [][(AbandonedCandidate /\ pc' = "codeLoop")
       => SkipBudget' = SkipBudget]_vars

\* C15 amended: such a candidate is left where it is, and when the scan goes
\* on to the instruction before it, the budget is one less.
C15_AbandonedCandidateCostsOne ==
    [][AbandonedCandidate
       => /\ F' = F
          /\ pc' = "codeLoop" => /\ SkipBudget' = SkipBudget - 1
                                 /\ InstToSink' = InstToSink - 1]_vars

\* The scan has gone on from a sinkable literal without a copy in another
\* predecessor.
C15_Witness ==
    /\ pc = "codeLoop"
    /\ F = FEntry
    /\ InstToSink + 1 \in DOMAIN F.body[FirstPredOf(F, BB)]
    /\ F.inst[F.body[FirstPredOf(F, BB)][InstToSink + 1]]
          = I("integer_literal", <<>>, 1)
    /\ \E P \in OtherPreds(F, BB) :
          CopiesIn(F, P, F.body[FirstPredOf(F, BB)][InstToSink + 1]) = {}
    /\ SkipBudget
          = SinkSearchWindow - (termPos(F, FirstPredOf(F, BB)) - InstToSink)

\* The number of instructions the running sinker has put into BB.
MovedIntoBB == Len(F.body[BB]) - Len(FEntry.body[BB])

\* C16: in the scan of sinkCodeFromPredecessors the budget is between 0 and
\* SinkSearchWindow, and the budget left plus the number of instructions
\* sunk is at most SinkSearchWindow, which is at most SinkSearchWindow - 1
\* instructions sunk; a step either sinks the instruction under the cursor,
\* one of the last SinkSearchWindow - 1 of the first predecessor, keeps the
\* budget and restarts at the terminator; or changes nothing and takes one
\* from the budget; or changes nothing and returns. Every step that stays
\* in the scan lowers the budget plus the length of the first predecessor,
\* so the scan ends.
C16_BudgetBoundsTheScan ==
    [][pc = "codeLoop" =>
          LET FP == FirstPredOf(F, BB)
          IN  /\ SkipBudget \in 0..SinkSearchWindow
              /\ MovedIntoBB + SkipBudget <= SinkSearchWindow
              /\ MovedIntoBB <= SinkSearchWindow - 1
              /\ \/ /\ F' # F
                    /\ pc' = "codeLoop"
                    /\ SkipBudget' = SkipBudget
                    /\ InstToSink \in DOMAIN F.body[FP]
                    /\ Len(F.body[FP]) - InstToSink < SinkSearchWindow - 1
                    /\ F'.body[BB] = <<F.body[FP][InstToSink]>> \o F.body[BB]
                    /\ Len(F'.body[FP]) = Len(F.body[FP]) - 1
                    /\ InstToSink' = Len(F'.body[FP]) + 1
                 \/ /\ F' = F
                    /\ pc' = "codeLoop"
                    /\ SkipBudget' = SkipBudget - 1
                    /\ SkipBudget' >= 0
                 \/ /\ F' = F
                    /\ pc' # "codeLoop"]_vars

\* The budget ran out after SinkSearchWindow - 1 instructions were sunk,
\* with a further copy left at the end of each predecessor.
C16_Witness ==
    /\ pc = "codeLoop"
    /\ SkipBudget = 0
    /\ MovedIntoBB = SinkSearchWindow - 1
    /\ \A P \in Range(getPreds(F, BB)) :
          /\ F.body[P] # <<>>
          /\ F.inst[F.body[P][Len(F.body[P])]] = F.inst[F.body[BB][1]]

\* C17: a step of sinkCodeFromPredecessors that moves an instruction into BB
\* adds one to the statistic NumSunk.
C17_OneSunkEventPerSink ==
    [][(pc = "codeLoop" /\ Len(F'.body[BB]) = Len(F.body[BB]) + 1)
       => NumSunk' = NumSunk + 1]_vars

\* C18: a step of sinkCodeFromPredecessors puts an instruction into BB only
\* if it erases an identical instruction from another predecessor; at a
\* block with one predecessor no step changes the function or Changed.
C18_SinkNeedsAnErasedDuplicate ==
    [][(pc = "code" \/ pc = "codeLoop") =>
          /\ Len(F'.body[BB]) > Len(F.body[BB]) =>
                \E P \in OtherPreds(F, BB) : \E d \in Range(F.body[P]) :
                    /\ d \notin DOMAIN F'.inst
                    /\ F.inst[d] = F'.inst[F'.body[BB][1]]
          /\ Len(getPreds(F, BB)) = 1 =>
                (F' = F /\ Changed' = Changed)]_vars

\* sinkCodeFromPredecessors has returned false for a block whose one
\* predecessor, with that block as its one successor, ends in a sinkable
\* literal.
C18_Witness ==
    /\ pc = "args"
    /\ F = F0
    /\ ~Changed
    /\ Len(getPreds(F, BB)) = 1
    /\ SoleSuccessorOfPreds(F, BB)
    /\ LET P == getPreds(F, BB)[1]
       IN  /\ F.body[P] # <<>>
           /\ F.inst[F.body[P][Len(F.body[P])]] = I("integer_literal", <<>>, 1)
           /\ usesOf(F, InstV(F.body[P][Len(F.body[P])])) = {}

====
